---- MODULE Spec2Model ----
(***************************************************************************)
(* A model of secretapi's single-read, TTL-bounded secret store: the HTTP  *)
(* handlers HandleCreate / HandleRead (internal/app/handler.go), the Redis  *)
(* repository (internal/domain/repository.go), the envelope codec          *)
(* (pkg/utility/crypto.go), the middlewares ContentLengthValidator,        *)
(* SecurityHeaders and RateLimiterMiddleware (internal/app/middleware.go), *)
(* the retry loop of the command-line client and the Read page of the web  *)
(* frontend.                                                               *)
(*                                                                         *)
(* Granularity: one action per Redis round trip.  Everything a handler     *)
(* does between two round trips is local to its goroutine and is part of   *)
(* the action of the round trip that precedes it.  WATCH is issued in the  *)
(* same action as the first read of the transaction function: a write that *)
(* lands between WATCH and that read either leaves the read's result       *)
(* unchanged (and is then the same as the write landing just after the     *)
(* read) or removes the secret key, in which case both functions return    *)
(* before EXEC and the conflict flag is never consulted.                   *)
(*                                                                         *)
(* Time: the store's clock advances in ticks (action Tick).  A key with    *)
(* remaining time ttl >= 0 exists; PTTL reports ttl; the tick that follows *)
(* ttl = 0 removes the key (Redis: a key is expired when now > expireAt,   *)
(* and PTTL is expireAt - now, so PTTL = 0 is observable on a live key).   *)
(***************************************************************************)
EXTENDS Integers, Sequences, FiniteSets, TLC

\* ------------------------------------------------------------------ bounds
\* Clock ticks per hour of TTL.
Hour == 1
\* Calls of the store that fail (connection errors, timeouts) in one behaviour.
MaxFaults == 1
\* Calls of Encrypt by one caller of the codec.
MaxSeals == 2
\* Direct callers of the repository: StoreSecret calls on one identifier, and
\* DelIfMatch calls on one identifier.
MaxStores == 2
MaxCalls == 2
\* ... and IncrFailAndMaybeDelete calls on one identifier.
MaxIncrs == 3
\* RateLimitConfig of the rate limiter: requests per window and method, and the
\* window in clock ticks.
PostLimit == 1
GetLimit == 2
Window == 2
\* Requests counted in the rate limiter's keys at one time.
MaxCounted == 4

\* Request-handling goroutines, identifiers uuid.NewString can return.
Procs == {"w1", "w2"}
Ids == {"id1"}

\* ------------------------------------------------------- program constants
MaxReadAttempts == 3
maxWatchRetries == 3
maxRetries == 5
AUTO_CLEAR_SECONDS == 300
MaxSecretSize == 65536

\* A nil error, an absent path parameter or header.
Nil == "nil"
\* PTTL of a key without expiry.
NoExpiry == -1
\* The nil *redis.IntCmd.
NilCmd == -1
\* go-redis errors
TxFailedErr == "redis: transaction failed"
StoreErr == "store error"

\* --------------------------------------------------------- envelope codec
\* Byte strings are sequences of chunks [n |-> number of bytes, v |-> what they
\* are]: <<"rand", s>> bytes read from rand.Reader, <<"sealed", key, nonce, pt>>
\* the output of gcm.Seal, <<"junk", s>> other bytes, <<"part", v, from, to>> a
\* slice of the bytes v, <<"chars", c>> the character c repeated.  A string is
\* the byte string []byte(s) gives.
saltLen == 16
nonceLen == 12
\* gcm.Overhead(): the length of the authentication tag gcm.Seal appends.
tagLen == 16

Chars(c, n) == [n |-> n, v |-> <<"chars", c>>]

RECURSIVE ByteLen(_)
ByteLen(raw) == IF raw = <<>> THEN 0 ELSE Head(raw).n + ByteLen(Tail(raw))

\* A slice that keeps the whole string.
TakeAll(raw, k) == raw

\* raw[:k]
RECURSIVE Take(_, _)
Take(raw, k) ==
    IF k = 0 \/ raw = <<>> THEN <<>>
    ELSE IF Head(raw).n <= k THEN <<Head(raw)>> \o Take(Tail(raw), k - Head(raw).n)
    ELSE <<[n |-> k, v |-> <<"part", Head(raw).v, 0, k>>]>>

\* raw[k:]
RECURSIVE Drop(_, _)
Drop(raw, k) ==
    IF k = 0 \/ raw = <<>> THEN raw
    ELSE IF Head(raw).n <= k THEN Drop(Tail(raw), k - Head(raw).n)
    ELSE <<[n |-> Head(raw).n - k, v |-> <<"part", Head(raw).v, k, Head(raw).n>>]>>
         \o Tail(raw)

\* The buffer is used as make() returned it, without the read of rand.Reader.
RandUnread(n, s) == <<[n |-> n, v |-> <<"rand", 0>>]>>

\* io.ReadFull(rand.Reader, make([]byte, n)): n bytes, s being what was read.
Rand(n, s) == <<[n |-> n, v |-> <<"rand", s>>]>>

\* argon2.IDKey is a function of (passcode, salt).
deriveKey(passcode, salt) == <<passcode, salt>>

\* gcm.Seal: ciphertext and tag, bound to the key and the nonce they were sealed under.
Seal(key, nonce, plaintext) ==
    <<[n |-> ByteLen(plaintext) + tagLen, v |-> <<"sealed", key, nonce, plaintext>>]>>

\* An Open that verifies under every key.
OpenAnyKey(key, nonce, ct) ==
    IF /\ Len(ct) = 1
       /\ ct[1].v[1] = "sealed"
       /\ ct[1].v[3] = nonce
       /\ ct[1].n = ByteLen(ct[1].v[4]) + tagLen
    THEN [ok |-> TRUE, pt |-> ct[1].v[4]]
    ELSE [ok |-> FALSE, pt |-> <<>>]

\* gcm.Open: the tag verifies only on an unmodified output of Seal, under the
\* sealing key and nonce.
Open(key, nonce, ct) ==
    IF /\ Len(ct) = 1
       /\ ct[1].v[1] = "sealed"
       /\ ct[1].v[2] = key
       /\ ct[1].v[3] = nonce
       /\ ct[1].n = ByteLen(ct[1].v[4]) + tagLen
    THEN [ok |-> TRUE, pt |-> ct[1].v[4]]
    ELSE [ok |-> FALSE, pt |-> <<>>]

\* base64.StdEncoding: a text that decodes to raw, or (enc # "base64") one that
\* does not decode.
EncodeToString(raw) == [enc |-> "base64", raw |-> raw]

\* A decoder that accepts every text.
DecodeStringLenient(text) == [err |-> Nil, raw |-> text.raw]

DecodeString(text) ==
    IF text.enc = "base64" THEN [err |-> Nil, raw |-> text.raw]
    ELSE [err |-> "b64", raw |-> <<>>]

\* "v1:" + base64(salt | nonce | ct); salt and nonce are what the two reads of
\* rand.Reader returned.
Encrypt(plaintext, passcode, salt, nonce) ==
    LET slt == Rand(saltLen, salt)
        key == deriveKey(passcode, slt)
        non == Rand(nonceLen, nonce)
        ct == Seal(key, non, plaintext)
    IN  [ver |-> "v1:", text |-> EncodeToString(slt \o non \o ct)]

\* kdf: deriveKey was called (history).
Decrypt(blob, passcode) ==
    IF blob.ver # "v1:"
    THEN [ok |-> FALSE, pt |-> <<>>, err |-> "unsupported format", kdf |-> FALSE]
    ELSE LET dec == DecodeString(blob.text)
             raw == dec.raw
         IN  IF dec.err # Nil
             THEN [ok |-> FALSE, pt |-> <<>>, err |-> "b64", kdf |-> FALSE]
             ELSE IF ByteLen(raw) < saltLen + nonceLen + 1
             THEN [ok |-> FALSE, pt |-> <<>>, err |-> "blob too short", kdf |-> FALSE]
             ELSE LET salt == Take(raw, saltLen)
                      nonce == Take(Drop(raw, saltLen), nonceLen)
                      ct == Drop(raw, saltLen + nonceLen)
                      key == deriveKey(passcode, salt)
                      pt == Open(key, nonce, ct)
                  IN  IF pt.ok
                      THEN [ok |-> TRUE, pt |-> pt.pt, err |-> Nil, kdf |-> TRUE]
                      ELSE [ok |-> FALSE, pt |-> <<>>, err |-> "auth failed", kdf |-> TRUE]

\* ----------------------------------------------------------- access policy
\* A ParseExpiry that ignores the case of the token.
ParseExpiryAnyCase(s) ==
    CASE s \in {"1h", "1H"} -> [ttl |-> Hour, ok |-> TRUE]
      [] s \in {"6h", "6H"} -> [ttl |-> 6 * Hour, ok |-> TRUE]
      [] s \in {"1d", "1D"} -> [ttl |-> 24 * Hour, ok |-> TRUE]
      [] s \in {"3d", "3D"} -> [ttl |-> 72 * Hour, ok |-> TRUE]
      [] OTHER    -> [ttl |-> 0, ok |-> FALSE]

ParseExpiry(s) ==
    CASE s = "1h" -> [ttl |-> Hour, ok |-> TRUE]
      [] s = "6h" -> [ttl |-> 6 * Hour, ok |-> TRUE]
      [] s = "1d" -> [ttl |-> 24 * Hour, ok |-> TRUE]
      [] s = "3d" -> [ttl |-> 72 * Hour, ok |-> TRUE]
      [] OTHER    -> [ttl |-> 0, ok |-> FALSE]

DefaultExpiry == 24 * Hour

\* strings.TrimSpace
Blank == <<"chars", " ">>

RECURSIVE TrimLeft(_)
TrimLeft(s) == IF s # <<>> /\ Head(s).v = Blank THEN TrimLeft(Tail(s)) ELSE s

RECURSIVE TrimRight(_)
TrimRight(s) ==
    IF s # <<>> /\ s[Len(s)].v = Blank THEN TrimRight(SubSeq(s, 1, Len(s) - 1)) ELSE s

TrimSpace(s) == TrimRight(TrimLeft(s))

\* ------------------------------------------------------------- redis keys
redisKey(id) == <<"secret:", id>>
attemptsKey(id) == <<"secret:attempts:", id>>

\* ---------------------------------------------------------------- inputs
\* The word list GeneratePasscode draws from, and the passcodes a reader presents
\* ("" is a request without the X-Passcode header).
Wordlist == {"shore-outdoors-letter"}
ReadPasscodes == Wordlist \cup {"wrong-pass", ""}
\* Path parameter of /read/{id} ("" is a request without it).
ReadIds == Ids \cup {""}
\* Bytes rand.Reader returns for the salt and for the nonce.
RandBytes == {"r1"}
\* Request bodies of /create.
CreateBodies ==
    {[json |-> j, secret |-> s, expiry |-> e] :
        j \in {"ok", "invalid", "too large"},
        s \in {<<>>, <<Chars(" ", 1)>>, <<Chars(" ", 1), Chars("a", 1), Chars(" ", 1)>>},
        e \in {"1h", "1H"}}
\* What else decides a /create: rnd, the read of rand.Reader that fails, if any;
\* fail, whether the SET fails.  An input the handler does not get to read is
\* fixed to one value.
Canonical(c) ==
    LET unread == \/ c.body.json # "ok"
                  \/ TrimSpace(c.body.secret) = <<>>
                  \/ ByteLen(TrimSpace(c.body.secret)) > MaxSecretSize
        exp == c.body.expiry = "" \/ ParseExpiry(c.body.expiry).ok
    IN  /\ c.body.json # "ok" => c.body.secret = <<>>
        /\ unread \/ c.rnd = "passcode" => c.body.expiry = "1h"
        /\ unread => c.rnd = "ok"
        /\ ~exp => c.rnd # "encrypt"
        /\ unread \/ c.rnd # "ok" \/ ~exp => ~c.fail

CreateInputs ==
    {c \in [body : CreateBodies, rnd : {"ok", "passcode", "encrypt"}, fail : BOOLEAN] :
        Canonical(c)}

\* Requests of /create with a secret and every kind of expiry: none, the four
\* tokens, tokens in another case, other durations, a token with a space.
ExpiryTokens == {"", "1h", "6h", "1d", "3d", "1H", "1D", "24h", "72h", "2h", " 1h"}
ExpiryInputs ==
    {c \in [body : [json : {"ok"}, secret : {<<Chars("a", 1)>>}, expiry : ExpiryTokens],
            rnd : {"ok", "passcode", "encrypt"}, fail : BOOLEAN] :
        Canonical(c)}
\* Requests of /create with every kind of body: JSON that does not parse, a body
\* MaxBytesReader cuts, no secret, blank secrets, a secret in blanks, secrets of
\* MaxSecretSize and MaxSecretSize + 1 bytes without and within blanks, an expiry
\* that is no token.
BodySecrets ==
    {<<>>, <<Chars(" ", 1)>>, <<Chars(" ", 2)>>,
     <<Chars(" ", 1), Chars("a", 1), Chars(" ", 1)>>,
     <<Chars("a", MaxSecretSize)>>, <<Chars("a", MaxSecretSize + 1)>>,
     <<Chars(" ", 1), Chars("a", MaxSecretSize), Chars(" ", 1)>>,
     <<Chars(" ", 1), Chars("a", MaxSecretSize + 1)>>}
BodyInputs ==
    {c \in [body : [json : {"ok", "invalid", "too large"}, secret : BodySecrets,
                    expiry : {"1h", "2h"}],
            rnd : {"ok", "passcode", "encrypt"}, fail : BOOLEAN] :
        Canonical(c)}
\* No request.
NoInput == [body |-> [json |-> "", secret |-> <<>>, expiry |-> ""], rnd |-> "", fail |-> FALSE]

\* ------------------------------------------------------------ store state
\* A key of the store: absent, or a value with its remaining time to live.
NoBlob == [ver |-> "", text |-> EncodeToString(<<>>)]
NoKey == [exists |-> FALSE, val |-> NoBlob, ttl |-> 0]
NoCounter == [exists |-> FALSE, val |-> 0, ttl |-> 0]

VARIABLES
    secret,     \* [Ids -> key "secret:<id>"]: the stored envelope
    attempts,   \* [Ids -> key "secret:attempts:<id>"]: the failure counter
    w,          \* [Procs -> the locals of the request a goroutine is handling]
    out,        \* the response written last
    cleanup,    \* [Ids -> number of background DeleteAttempts goroutines not yet run]
    used,       \* identifiers uuid.NewString has returned
    faults,     \* store calls that failed so far
    hist,       \* [Ids -> history of the identifier] (history variable)
    codec,      \* a caller of Encrypt / Decrypt outside the handlers
    mw,         \* a request served through one middleware
    rl,         \* the Redis rate limiter and the request it served last
    cli,        \* one call of doRequestWithRetry by the command-line client
    page        \* the Read page of the web frontend

vars == <<secret, attempts, w, out, cleanup, used, faults, hist, codec, mw, rl, cli, page>>

\* The locals of a goroutine that handles no request.
Idle ==
    [pc |-> "idle", id |-> Nil, blob |-> NoBlob, plaintext |-> <<>>,
     i |-> 0, ttl |-> 0, cnt |-> NilCmd, watch |-> {}, dirty |-> FALSE]

\* A response: its status and body fields, and (history) the request of /create it
\* answers, what the repository call
\* behind it returned and did: ret and err, the value incr its INCR committed (0:
\* none), whether its DEL removed the key, whether it returned because the secret
\* was gone or because every attempt met a conflict, whether the store failed
\* under it.
NoResp ==
    [kind |-> "none", status |-> 0, id |-> Nil, passcode |-> Nil, body |-> <<>>,
     req |-> NoInput, remaining |-> 0, ret |-> 0, err |-> Nil, incr |-> 0, deleted |-> FALSE,
     gone |-> FALSE, exhausted |-> FALSE, fault |-> FALSE]

\* fate: none, stored, consumed (DelIfMatch), evicted (threshold), expired (TTL).
\* stores: StoreSecret calls that wrote the key.
\* fails: number of failed reads answered one after the other since the secret was
\* stored, with nothing else done to the identifier meanwhile; -1 once anything else
\* was.  n200, n401: reads answered 200 and 401 (n401 stops counting one past
\* MaxReadAttempts).  dels: DelIfMatch calls that removed the key.  delErr, delFault,
\* delRetry: some DelIfMatch call returned an error, met a store failure, returned
\* after a conflict.
NoHist ==
    [fate |-> "none", passcode |-> Nil, plaintext |-> <<>>, blob |-> NoBlob,
     stores |-> 0, fails |-> -1, n200 |-> 0, n401 |-> 0,
     dels |-> 0, delErr |-> FALSE, delFault |-> FALSE, delRetry |-> FALSE]

\* What Decrypt returned: nothing yet.
NoRes == [ok |-> FALSE, pt |-> <<>>, err |-> Nil, kdf |-> FALSE]

\* The caller of the codec: its position, its arguments, the blob it holds and how
\* the blob was altered since Encrypt returned it, the blobs Encrypt returned
\* before, the result of Decrypt, the number of reads of rand.Reader so far.
NoCodec ==
    [pc |-> "off", plaintext |-> <<>>, passcode |-> Nil, guess |-> Nil,
     blob |-> NoBlob, how |-> "none", seen |-> {}, res |-> NoRes, rnd |-> 0]

\* No request, no response of a middleware.
NoReq == [method |-> "", host |-> "", path |-> "", tls |-> FALSE, xfp |-> "",
          contentLength |-> 0]
NoMwResp == [status |-> 0, location |-> <<>>, headers |-> {}, next |-> FALSE, passed |-> NoReq]

\* The middleware under test: its configuration, the request, the response.
NoMw == [pc |-> "off", by |-> "none", cfg |-> [RequireHTTPS |-> FALSE], maxSize |-> 0,
         req |-> NoReq, resp |-> NoMwResp]

\* The addresses of the clients, as strings.
RemoteAddrs == {"10.0.0.1", "10.0.0.2"}
Addr(a) == <<[n |-> 1, v |-> <<"addr", a>>]>>
ClientIPs == {Addr(a) : a \in RemoteAddrs}

\* fmt.Sprintf("ratelimit:%s:%s", ip, r.Method)
RateLimitKey(ip, method) == <<"ratelimit", ip, method>>
RateLimitKeys == {RateLimitKey(ip, method) : ip \in ClientIPs, method \in {"GET", "POST"}}
NoRateLimitKey == RateLimitKey(<<>>, "")

\* An absent counter of the rate limiter.  age: ticks since the key was created
\* (history field).
NoRate == [exists |-> FALSE, val |-> 0, ttl |-> 0, age |-> 0]

\* The rate limiter: its client (nil or connected), the counters in the store, and
\* the request served last with its response.
NoRl == [rdb |-> "nil", counters |-> [k \in RateLimitKeys |-> NoRate],
         method |-> "", key |-> NoRateLimitKey, incr |-> 0, err |-> Nil,
         status |-> 0, next |-> FALSE]

\* The command-line client: the request of one doRequestWithRetry call, its loop
\* variable i, what client.Do returned so far, the response bodies it closed, and
\* what the call returned (resp 0: a nil response).
NoCli == [pc |-> "off", req |-> "", i |-> 0, seen |-> <<>>, closed |-> 0,
          resp |-> 0, err |-> Nil]

\* The state of the Read component: its useState values (null and the empty
\* string are both ""), timerRef.current # null, the [secret] effect waiting to run
\* after a render, and the event handled last (history field).
NoPage == [mounted |-> FALSE, passcode |-> "", secret |-> "", loading |-> FALSE,
           error |-> "", secondsRemaining |-> AUTO_CLEAR_SECONDS, timerRef |-> FALSE,
           effect |-> FALSE, last |-> "none"]

Init ==
    /\ codec = NoCodec
    /\ mw = NoMw
    /\ rl = NoRl
    /\ cli = NoCli
    /\ page = NoPage
    /\ secret = [id \in Ids |-> NoKey]
    /\ attempts = [id \in Ids |-> NoCounter]
    /\ w = [p \in Procs |-> Idle]
    /\ out = NoResp
    /\ cleanup = [id \in Ids |-> 0]
    /\ used = {}
    /\ faults = 0
    /\ hist = [id \in Ids |-> NoHist]

\* The outcomes of a call of the store: it fails (TRUE) or is served (FALSE).
Failures == IF faults < MaxFaults THEN BOOLEAN ELSE {FALSE}

Fault(fail) == faults' = IF fail THEN faults + 1 ELSE faults

\* No response is being written.  Writing a response is a step of its own (Sent),
\* so that out holds each response in exactly one state.
Quiet == out = NoResp

\* No goroutine is inside a request.  A request that is rejected before its first
\* call of the store reads and writes nothing shared: its step commutes with every
\* step of the other goroutines, and is taken only when there are none.
AllIdle == \A p \in Procs : w[p].pc = "idle"

\* WATCH: every write to a watched key marks the watching connection, whose next
\* EXEC then fails with TxFailedErr.
Touch(ws, keys) ==
    [q \in Procs |->
        IF ws[q].watch \cap keys # {} THEN [ws[q] EXCEPT !.dirty = TRUE] ELSE ws[q]]

\* History: the sequence of failed attempts on id is no longer a clean sequence.
Taint(h, id) == [h EXCEPT ![id].fails = -1]

\* Another goroutine is handling a request on the same identifier.
Overlaps(p, id) == \E q \in Procs \ {p} : w[q].pc # "idle" /\ w[q].id = id

\* ------------------------------------------------------------ HandleCreate
\* A HandleCreate without the test of the trimmed secret.
CreateStatusBlankOK(body, text, exp, rnd, fail) ==
    IF body.json = "too large" THEN 413
    ELSE IF body.json = "invalid" THEN 400
    ELSE IF ByteLen(text) > MaxSecretSize THEN 413
    ELSE IF rnd = "passcode" THEN 500
    ELSE IF ~exp.ok THEN 400
    ELSE IF rnd = "encrypt" THEN 500
    ELSE IF fail THEN 500
    ELSE 201

\* The status HandleCreate answers with, in the order the handler tests.
CreateStatus(body, text, exp, rnd, fail) ==
    IF body.json = "too large" THEN 413
    ELSE IF body.json = "invalid" THEN 400
    ELSE IF text = <<>> THEN 400
    ELSE IF ByteLen(text) > MaxSecretSize THEN 413
    ELSE IF rnd = "passcode" THEN 500
    ELSE IF ~exp.ok THEN 400
    ELSE IF rnd = "encrypt" THEN 500
    ELSE IF fail THEN 500
    ELSE 201

\* StoreSecret: SET key secret with expiry ttl.
StoreSecret(store, id, blob, ttl) ==
    [store EXCEPT ![id] = [exists |-> TRUE, val |-> blob, ttl |-> ttl]]

\* An identifier generator that may repeat itself.
NewStringAny == Ids

\* uuid.NewString(): a random version 4 UUID, one that was never drawn before.
NewString == Ids \ used

\* The handler runs in one goroutine and makes one call of the store.
Create(in) ==
    /\ Quiet
    /\ \E passcode \in Wordlist, salt \in RandBytes,
          nonce \in RandBytes, id \in NewString \cup {Nil} :
           LET body == in.body
               text == TrimSpace(body.secret)
               exp == IF body.expiry = ""
                      THEN [ttl |-> DefaultExpiry, ok |-> TRUE]
                      ELSE ParseExpiry(body.expiry)
               blob == Encrypt(text, passcode, salt, nonce)
               status == CreateStatus(body, text, exp, in.rnd, in.fail)
               \* uuid.NewString() is reached
               named == status = 201 \/ (status = 500 /\ in.rnd = "ok")
           IN  /\ named <=> id # Nil
               /\ ~named => AllIdle
               /\ in.fail => faults < MaxFaults
               /\ Fault(in.fail)
               /\ secret' = IF status = 201
                            THEN StoreSecret(secret, id, blob, exp.ttl)
                            ELSE secret
               /\ w' = IF status = 201 THEN Touch(w, {redisKey(id)}) ELSE w
               /\ used' = IF named THEN used \cup {id} ELSE used
               /\ out' = [NoResp EXCEPT !.kind = "create", !.status = status, !.req = in,
                             !.id = IF status = 201 THEN id ELSE Nil,
                             !.passcode = IF status = 201 THEN passcode ELSE Nil,
                             !.fault = named /\ in.fail]
               /\ hist' = IF status = 201
                          THEN [hist EXCEPT ![id] =
                                  [NoHist EXCEPT !.fate = "stored", !.passcode = passcode,
                                      !.plaintext = text, !.blob = blob, !.stores = 1,
                                      !.fails = 0]]
                          ELSE hist
               /\ UNCHANGED <<attempts, cleanup, codec, mw, rl, cli, page>>

HandleCreate == \E in \in CreateInputs : Create(in)

\* -------------------------------------------------------------- HandleRead
\* GetSecret: GET key.
GetSecret(store, id) ==
    IF store[id].exists
    THEN [err |-> Nil, blob |-> store[id].val]
    ELSE [err |-> "redis: nil", blob |-> NoBlob]

\* A HandleRead that takes redis.Nil for a blob that does not decrypt.
ReadFirstNilIsWrong(store, id, passcode, fail) ==
    LET bad == id = "" \/ passcode = ""
        got == IF bad \/ fail THEN [err |-> StoreErr, blob |-> NoBlob]
               ELSE [err |-> Nil, blob |-> store[id].val]
        dec == Decrypt(got.blob, passcode)
    IN  [status |-> IF bad THEN 400
                    ELSE IF got.err # Nil THEN 500
                    ELSE 0,
         pc |-> IF dec.ok THEN "del_get" ELSE "incr_exists",
         blob |-> got.blob,
         plaintext |-> dec.pt]

\* HandleRead up to the repository call that follows Decrypt: the status it
\* answers with at once, or status 0 and the call it goes on to.  fail: the GET fails.
ReadFirst(store, id, passcode, fail) ==
    LET bad == id = "" \/ passcode = ""
        got == IF bad \/ fail THEN [err |-> StoreErr, blob |-> NoBlob]
               ELSE GetSecret(store, id)
        dec == Decrypt(got.blob, passcode)
    IN  [status |-> IF bad THEN 400
                    ELSE IF got.err = "redis: nil" THEN 404
                    ELSE IF got.err # Nil THEN 500
                    ELSE 0,
         pc |-> IF dec.ok THEN "del_get" ELSE "incr_exists",
         blob |-> got.blob,
         plaintext |-> dec.pt]

HandleRead(p) ==
    /\ Quiet
    /\ w[p].pc = "idle"
    /\ \E id \in ReadIds, passcode \in ReadPasscodes, fail \in Failures :
        LET bad == id = "" \/ passcode = ""
            r == ReadFirst(secret, id, passcode, fail)
        IN  /\ bad => ~fail /\ AllIdle
            /\ Fault(fail)
            /\ w' = IF r.status = 0
                    THEN [w EXCEPT ![p] = [Idle EXCEPT !.pc = r.pc, !.id = id,
                                              !.blob = r.blob, !.plaintext = r.plaintext]]
                    ELSE w
            /\ out' = IF r.status = 0 THEN out
                      ELSE [NoResp EXCEPT !.kind = "read", !.status = r.status, !.id = id,
                               !.fault = r.status = 500]
            /\ hist' = IF bad THEN hist
                       ELSE IF r.status # 0 \/ r.pc = "del_get" \/ Overlaps(p, id)
                       THEN Taint(hist, id)
                       ELSE hist
    /\ UNCHANGED <<secret, attempts, cleanup, used, codec, mw, rl, cli, page>>

\* A loop without the bound on its attempts.
WatchLoopUnbounded(i, err) == IF err # TxFailedErr THEN "break" ELSE "retry"

\* A loop that goes on after every error.
WatchLoopAnyError(i, err) ==
    IF err \in {Nil, "exec"} THEN "break"
    ELSE IF i + 1 < maxWatchRetries THEN "retry"
    ELSE "exhausted"

\* A loop that runs the transaction again after it committed.
WatchLoopAfterCommit(i, err) ==
    IF err \notin {TxFailedErr, Nil} THEN "break"
    ELSE IF i + 1 < maxWatchRetries THEN "retry"
    ELSE "exhausted"

\* The retry loop around rdb.Watch: what follows an attempt that ended with err.
WatchLoop(i, err) ==
    IF err # TxFailedErr THEN "break"
    ELSE IF i + 1 < maxWatchRetries THEN "retry"
    ELSE "exhausted"

\* -------------------------------------------------------------- DelIfMatch
\* DelIfMatch without its redis.Nil case: the absent key is reported as an error.
DelIfMatchFnNilIsError(cur, old) ==
    IF ~cur.exists THEN "redis: nil"
    ELSE IF cur.val # old THEN TxFailedErr
    ELSE "exec"

\* DelIfMatch that takes an absent key for a conflict.
DelIfMatchFnNilIsConflict(cur, old) ==
    IF ~cur.exists THEN TxFailedErr
    ELSE IF cur.val # old THEN TxFailedErr
    ELSE "exec"

\* DelIfMatch without the comparison of cur with old.
DelIfMatchFnNoCompare(cur, old) == IF ~cur.exists THEN Nil ELSE "exec"

\* The transaction function of DelIfMatch after GET key: nil, TxFailedErr, or
\* go on to MULTI/DEL/EXEC.
DelIfMatchFn(cur, old) ==
    IF ~cur.exists THEN Nil
    ELSE IF cur.val # old THEN TxFailedErr
    ELSE "exec"

\* What DelIfMatch returns when its loop ended with err.
DelIfMatchRet(err) == IF err # Nil /\ err # TxFailedErr THEN err ELSE Nil

\* A DEL that removes nothing.
DelNothing(store, id) == store

\* DEL key
Del(store, id) == [store EXCEPT ![id] = NoKey]

\* The rest of HandleRead once DelIfMatch returned err: the error is logged, the
\* cleanup goroutine is started and the plaintext is written with status 200.
ReadOK(p, err, deleted, fault) ==
    [NoResp EXCEPT !.kind = "read", !.status = 200, !.id = w[p].id,
        !.body = w[p].plaintext, !.err = err, !.deleted = deleted, !.fault = fault]

\* History of an identifier after a successful read was answered.
Served(h, id, r, retried) ==
    [h EXCEPT ![id].n200 = @ + 1,
              ![id].dels = IF r.deleted THEN @ + 1 ELSE @,
              ![id].delErr = @ \/ r.err # Nil,
              ![id].delFault = @ \/ r.fault,
              ![id].delRetry = @ \/ retried,
              ![id].fate = IF r.deleted THEN "consumed" ELSE @]

\* One attempt of DelIfMatch up to GET: WATCH key; GET key.
DelGet(p) ==
    /\ Quiet
    /\ w[p].pc = "del_get"
    /\ \E fail \in Failures :
        /\ Fault(fail)
        /\ LET id == w[p].id
               res == IF fail THEN StoreErr ELSE DelIfMatchFn(secret[id], w[p].blob)
               loop == WatchLoop(w[p].i, res)
               done == res # "exec" /\ loop # "retry"
               r == ReadOK(p, DelIfMatchRet(res), FALSE, fail)
           IN  /\ w' = [w EXCEPT ![p] =
                           IF res = "exec"
                           THEN [@ EXCEPT !.pc = "del_exec", !.watch = {redisKey(id)},
                                    !.dirty = FALSE]
                           ELSE IF loop = "retry" THEN [@ EXCEPT !.i = @ + 1]
                           ELSE Idle]
               /\ out' = IF done THEN [r EXCEPT !.exhausted = loop = "exhausted"] ELSE out
               /\ cleanup' = IF done THEN [cleanup EXCEPT ![id] = @ + 1] ELSE cleanup
               /\ hist' = IF done THEN Served(hist, id, r, w[p].i > 0) ELSE hist
    /\ UNCHANGED <<secret, attempts, used, codec, mw, rl, cli, page>>

\* MULTI; DEL key; EXEC on the watching connection.
DelExec(p) ==
    /\ Quiet
    /\ w[p].pc = "del_exec"
    /\ \E fail \in Failures :
        /\ Fault(fail)
        /\ LET id == w[p].id
               err == IF fail THEN StoreErr
                      ELSE IF w[p].dirty THEN TxFailedErr
                      ELSE Nil
               loop == WatchLoop(w[p].i, err)
               done == loop # "retry"
               r == ReadOK(p, DelIfMatchRet(err), err = Nil, fail)
               wT == IF err = Nil THEN Touch(w, {redisKey(id)}) ELSE w
           IN  /\ secret' = IF err = Nil THEN Del(secret, id) ELSE secret
               /\ w' = [wT EXCEPT ![p] =
                           IF done THEN Idle
                           ELSE [w[p] EXCEPT !.pc = "del_get", !.i = @ + 1, !.watch = {},
                                    !.dirty = FALSE]]
               /\ out' = IF done THEN [r EXCEPT !.exhausted = loop = "exhausted"] ELSE out
               /\ cleanup' = IF done THEN [cleanup EXCEPT ![id] = @ + 1] ELSE cleanup
               /\ hist' = IF done THEN Served(hist, id, r, w[p].i > 0) ELSE hist
    /\ UNCHANGED <<attempts, used, codec, mw, rl, cli, page>>

\* A cleanup whose failure is reported to the caller of the read.
DeleteAttemptsReported(id) ==
    /\ Quiet
    /\ cleanup[id] > 0
    /\ \E fail \in Failures :
        /\ Fault(fail)
        /\ attempts' = IF fail THEN attempts ELSE [attempts EXCEPT ![id] = NoCounter]
        /\ w' = IF ~fail /\ attempts[id].exists THEN Touch(w, {attemptsKey(id)}) ELSE w
        /\ out' = IF fail THEN [NoResp EXCEPT !.kind = "read", !.status = 500, !.id = id,
                                              !.err = StoreErr, !.fault = TRUE]
                  ELSE out
    /\ cleanup' = [cleanup EXCEPT ![id] = @ - 1]
    /\ hist' = Taint(hist, id)
    /\ UNCHANGED <<secret, used, codec, mw, rl, cli, page>>

\* A cleanup goroutine that ends without sending its DEL.
DeleteAttemptsNotSent(id) ==
    /\ Quiet
    /\ cleanup[id] > 0
    /\ cleanup' = [cleanup EXCEPT ![id] = @ - 1]
    /\ hist' = Taint(hist, id)
    /\ UNCHANGED <<secret, attempts, w, out, used, faults, codec, mw, rl, cli, page>>

\* The background goroutine of HandleRead: DeleteAttempts with a 5 s timeout, its
\* error only logged.  fail: the DEL fails or times out.
DeleteAttempts(id) ==
    /\ Quiet
    /\ cleanup[id] > 0
    /\ \E fail \in Failures :
        /\ Fault(fail)
        /\ attempts' = IF fail THEN attempts ELSE [attempts EXCEPT ![id] = NoCounter]
        /\ w' = IF ~fail /\ attempts[id].exists THEN Touch(w, {attemptsKey(id)}) ELSE w
    /\ cleanup' = [cleanup EXCEPT ![id] = @ - 1]
    /\ hist' = Taint(hist, id)
    /\ UNCHANGED <<secret, out, used, codec, mw, rl, cli, page>>

\* -------------------------------------------------- IncrFailAndMaybeDelete
\* What IncrFailAndMaybeDelete returns when its loop ended with cnt and err.
IncrFailRet(cnt, err) ==
    IF err # Nil /\ err # TxFailedErr THEN [n |-> 0, err |-> err]
    ELSE IF cnt = NilCmd THEN [n |-> 0, err |-> Nil]
    ELSE [n |-> cnt, err |-> Nil]

\* remaining_attempts of the 401 response.
RemainingAttempts(n) == MaxReadAttempts - n

\* The threshold compared with > instead of >=.
AtThresholdStrict(n) == n > MaxReadAttempts

\* The threshold reached by the first failure.
AtThresholdFirst(n) == n >= 1

\* The second pipeline (DEL key att) is run.
AtThreshold(n) == n >= MaxReadAttempts

\* IncrFailAndMaybeDelete without its early return.
SecretGoneIgnored(store, id) == FALSE

\* The transaction function after EXISTS key: return nil when the secret is gone.
SecretGone(store, id) == ~store[id].exists

\* PTTL key: -2 for an absent key.
PTTL(store, id) == IF store[id].exists THEN store[id].ttl ELSE -2

\* The first pipeline with SET att 1 in place of INCR att.
IncrPipelineSet(counter, ttl) ==
    [exists |-> TRUE,
     val |-> 1,
     ttl |-> IF ttl > 0 THEN ttl
             ELSE IF counter.exists THEN counter.ttl
             ELSE NoExpiry]

\* The first pipeline: INCR att, and PEXPIRE att ttl when ttl > 0.
IncrPipeline(counter, ttl) ==
    [exists |-> TRUE,
     val |-> IF counter.exists THEN counter.val + 1 ELSE 1,
     ttl |-> IF ttl > 0 THEN ttl
             ELSE IF counter.exists THEN counter.ttl
             ELSE NoExpiry]

\* The rest of HandleRead once IncrFailAndMaybeDelete returned: the error is
\* dropped and 401 is written with the remaining attempts.
ReadUnauthorized(p, r, cnt, fault) ==
    [NoResp EXCEPT !.kind = "read", !.status = 401, !.id = w[p].id,
        !.remaining = RemainingAttempts(r.n), !.ret = r.n, !.err = r.err,
        !.incr = IF cnt = NilCmd THEN 0 ELSE cnt, !.fault = fault]

\* History of an identifier after a failed read was answered.
Failed(h, id, fault) ==
    [h EXCEPT ![id].n401 = IF @ > MaxReadAttempts THEN @ ELSE @ + 1,
              ![id].fails = IF fault \/ @ < 0 THEN -1 ELSE @ + 1]

\* One attempt up to EXISTS: WATCH key att; EXISTS key.
IncrExists(p) ==
    /\ Quiet
    /\ w[p].pc = "incr_exists"
    /\ \E fail \in Failures :
        /\ Fault(fail)
        /\ LET id == w[p].id
               done == fail \/ SecretGone(secret, id)
               r == IncrFailRet(NilCmd, IF fail THEN StoreErr ELSE Nil)
           IN  /\ w' = [w EXCEPT ![p] =
                           IF done THEN Idle
                           ELSE [@ EXCEPT !.pc = "incr_pttl",
                                    !.watch = {redisKey(id), attemptsKey(id)},
                                    !.dirty = FALSE]]
               /\ out' = IF done
                         THEN [ReadUnauthorized(p, r, NilCmd, fail) EXCEPT !.gone = ~fail]
                         ELSE out
               /\ hist' = IF done THEN Failed(hist, id, fail) ELSE hist
    /\ UNCHANGED <<secret, attempts, cleanup, used, codec, mw, rl, cli, page>>

\* PTTL key
IncrPTTL(p) ==
    /\ Quiet
    /\ w[p].pc = "incr_pttl"
    /\ \E fail \in Failures :
        /\ Fault(fail)
        /\ LET id == w[p].id
               r == IncrFailRet(NilCmd, StoreErr)
           IN  /\ w' = [w EXCEPT ![p] =
                           IF fail THEN Idle
                           ELSE [@ EXCEPT !.pc = "incr_exec", !.ttl = PTTL(secret, id)]]
               /\ out' = IF fail THEN ReadUnauthorized(p, r, NilCmd, TRUE) ELSE out
               /\ hist' = IF fail THEN Failed(hist, id, TRUE) ELSE hist
    /\ UNCHANGED <<secret, attempts, cleanup, used, codec, mw, rl, cli, page>>

\* MULTI; INCR att; PEXPIRE att ttl; EXEC on the watching connection.  EXEC
\* drops the connection's watches, whatever its outcome.
IncrExec(p) ==
    /\ Quiet
    /\ w[p].pc = "incr_exec"
    /\ \E fail \in Failures :
        /\ Fault(fail)
        /\ LET id == w[p].id
               err == IF fail THEN StoreErr
                      ELSE IF w[p].dirty THEN TxFailedErr
                      ELSE Nil
               after == IncrPipeline(attempts[id], w[p].ttl)
               cnt == IF err = Nil THEN after.val ELSE NilCmd
               loop == WatchLoop(w[p].i, err)
               more == err = Nil /\ AtThreshold(cnt)
               done == ~more /\ loop # "retry"
               r == IncrFailRet(cnt, err)
               wT == IF err = Nil THEN Touch(w, {attemptsKey(id)}) ELSE w
           IN  /\ attempts' = IF err = Nil THEN [attempts EXCEPT ![id] = after] ELSE attempts
               /\ w' = [wT EXCEPT ![p] =
                           IF more
                           THEN [w[p] EXCEPT !.pc = "incr_del", !.cnt = cnt, !.watch = {},
                                    !.dirty = FALSE]
                           ELSE IF done THEN Idle
                           ELSE [w[p] EXCEPT !.pc = "incr_exists", !.i = @ + 1,
                                    !.cnt = NilCmd, !.watch = {}, !.dirty = FALSE]]
               /\ out' = IF done
                         THEN [ReadUnauthorized(p, r, cnt, fail) EXCEPT
                                  !.exhausted = loop = "exhausted"]
                         ELSE out
               /\ hist' = IF done THEN Failed(hist, id, fail) ELSE hist
    /\ UNCHANGED <<secret, cleanup, used, codec, mw, rl, cli, page>>

\* MULTI; DEL key att; EXEC, with nothing watched any more.
IncrDel(p) ==
    /\ Quiet
    /\ w[p].pc = "incr_del"
    /\ \E fail \in Failures :
        /\ Fault(fail)
        /\ LET id == w[p].id
               err == IF fail THEN StoreErr ELSE Nil
               r == IncrFailRet(w[p].cnt, err)
               keys == {k \in {redisKey(id), attemptsKey(id)} :
                          \/ k = redisKey(id) /\ secret[id].exists
                          \/ k = attemptsKey(id) /\ attempts[id].exists}
           IN  /\ secret' = IF fail THEN secret ELSE Del(secret, id)
               /\ attempts' = IF fail THEN attempts ELSE [attempts EXCEPT ![id] = NoCounter]
               /\ w' = [(IF fail THEN w ELSE Touch(w, keys)) EXCEPT ![p] = Idle]
               /\ out' = ReadUnauthorized(p, r, w[p].cnt, fail)
               /\ hist' = [Failed(hist, id, fail) EXCEPT
                             ![id].fate = IF ~fail /\ secret[id].exists THEN "evicted" ELSE @]
    /\ UNCHANGED <<cleanup, used, codec, mw, rl, cli, page>>

\* ------------------------------------------------------------------- clock
\* A key after one tick of the store's clock.
Age(k, none) ==
    IF ~k.exists \/ k.ttl = NoExpiry THEN k
    ELSE IF k.ttl = 0 THEN none
    ELSE [k EXCEPT !.ttl = @ - 1]

Expiring(k) == k.exists /\ k.ttl = 0

Tick ==
    /\ Quiet
    /\ \E id \in Ids : (secret[id].exists \/ attempts[id].exists)
    /\ secret' = [id \in Ids |-> Age(secret[id], NoKey)]
    /\ attempts' = [id \in Ids |-> Age(attempts[id], NoCounter)]
    /\ w' = Touch(w, {redisKey(id) : id \in {x \in Ids : Expiring(secret[x])}}
                      \cup {attemptsKey(id) : id \in {x \in Ids : Expiring(attempts[x])}})
    /\ hist' = [id \in Ids |->
                  [hist[id] EXCEPT
                     !.fate = IF Expiring(secret[id]) THEN "expired" ELSE @,
                     !.fails = IF Expiring(secret[id]) \/ Expiring(attempts[id])
                               THEN -1 ELSE @]]
    /\ UNCHANGED <<out, cleanup, used, faults, codec, mw, rl, cli, page>>

\* The response is on the wire and the handler returns.
Sent ==
    /\ ~Quiet
    /\ out' = NoResp
    /\ UNCHANGED <<secret, attempts, w, cleanup, used, faults, hist, codec, mw, rl, cli, page>>

Next ==
    \/ HandleCreate
    \/ \E p \in Procs :
        \/ HandleRead(p)
        \/ DelGet(p)
        \/ DelExec(p)
        \/ IncrExists(p)
        \/ IncrPTTL(p)
        \/ IncrExec(p)
        \/ IncrDel(p)
    \/ \E id \in Ids : DeleteAttempts(id)
    \/ Tick
    \/ Sent

Spec == Init /\ [][Next]_vars

\* ------------------------------------------- a store that stays reachable
\* The handlers with a store that serves every call, a scheduler that runs every
\* cleanup goroutine that was started, and responses that get written.  (Next
\* takes a goroutine's step only between two responses, so a goroutine that is
\* always runnable is enabled again and again rather than continuously.)
ReachableInit ==
    /\ codec = NoCodec
    /\ mw = NoMw
    /\ rl = NoRl
    /\ cli = NoCli
    /\ page = NoPage
    /\ secret = [id \in Ids |-> NoKey]
    /\ attempts = [id \in Ids |-> NoCounter]
    /\ w = [p \in Procs |-> Idle]
    /\ out = NoResp
    /\ cleanup = [id \in Ids |-> 0]
    /\ used = {}
    /\ faults = MaxFaults
    /\ hist = [id \in Ids |-> NoHist]

CleanupSpec ==
    /\ ReachableInit
    /\ [][Next]_vars
    /\ WF_vars(Sent)
    /\ \A id \in Ids : SF_vars(DeleteAttempts(id))

\* ------------------------------------------------------- the codec alone
\* Encrypt and Decrypt called directly, as the tests of the package do: the caller
\* seals a plaintext under a passcode (up to MaxSeals times), the blob may be
\* altered in storage, and it is opened with the passcode guess.
CodecPlaintexts ==
    {<<>>, <<Chars("a", 1)>>, <<Chars("ff", 1), Chars("00", 1), Chars("fe", 1)>>}
CodecPasscodes == ReadPasscodes \ {""}

\* Alterations of a stored blob: another version prefix, a text that is not
\* base64, a payload cut to saltLen + nonceLen bytes, to saltLen + nonceLen + 1
\* bytes, a payload that lost its last byte, other bytes in place of the ciphertext.
Alterations == {"prefix", "b64", "short", "least", "cut", "ct"}

Alter(blob, how) ==
    LET raw == blob.text.raw
        put(r) == [blob EXCEPT !.text.raw = r]
    IN  CASE how = "prefix" -> [blob EXCEPT !.ver = "v2:"]
          [] how = "b64"    -> [blob EXCEPT !.text.enc = "other"]
          [] how = "short"  -> put(Take(raw, saltLen + nonceLen))
          [] how = "least"  -> put(Take(raw, saltLen + nonceLen + 1))
          [] how = "cut"    -> put(Take(raw, ByteLen(raw) - 1))
          [] how = "ct"     -> put(Take(raw, saltLen + nonceLen)
                                   \o <<[n |-> ByteLen(raw) - saltLen - nonceLen,
                                         v |-> <<"junk", "x">>]>>)

CodecInit ==
    /\ codec \in {[NoCodec EXCEPT !.pc = "start", !.plaintext = pt, !.passcode = c,
                      !.guess = g] :
                    pt \in CodecPlaintexts, c \in CodecPasscodes, g \in CodecPasscodes}
    /\ mw = NoMw
    /\ rl = NoRl
    /\ cli = NoCli
    /\ page = NoPage
    /\ secret = [id \in Ids |-> NoKey]
    /\ attempts = [id \in Ids |-> NoCounter]
    /\ w = [p \in Procs |-> Idle]
    /\ out = NoResp
    /\ cleanup = [id \in Ids |-> 0]
    /\ used = {}
    /\ faults = 0
    /\ hist = [id \in Ids |-> NoHist]

\* Encrypt(plaintext, passcode): two reads of rand.Reader, which never returns the
\* bytes it returned before.
CodecEncrypt ==
    /\ codec.pc \in {"start", "sealed"}
    /\ codec.rnd < 2 * MaxSeals
    /\ codec' = [codec EXCEPT
                    !.pc = "sealed",
                    !.blob = Encrypt(codec.plaintext, codec.passcode,
                                     codec.rnd, codec.rnd + 1),
                    !.seen = IF codec.pc = "sealed" THEN @ \cup {codec.blob} ELSE @,
                    !.rnd = @ + 2]
    /\ UNCHANGED <<secret, attempts, w, out, cleanup, used, faults, hist, mw, rl, cli, page>>

\* The stored blob is altered.
CodecAlter ==
    /\ codec.pc = "sealed"
    /\ \E how \in Alterations :
          codec' = [codec EXCEPT !.pc = "altered", !.how = how,
                                 !.blob = Alter(codec.blob, how)]
    /\ UNCHANGED <<secret, attempts, w, out, cleanup, used, faults, hist, mw, rl, cli, page>>

\* Decrypt(blob, guess)
CodecDecrypt ==
    /\ codec.pc \in {"sealed", "altered"}
    /\ codec' = [codec EXCEPT !.pc = "opened", !.res = Decrypt(codec.blob, codec.guess)]
    /\ UNCHANGED <<secret, attempts, w, out, cleanup, used, faults, hist, mw, rl, cli, page>>

CodecNext == CodecEncrypt \/ CodecAlter \/ CodecDecrypt

CodecSpec == CodecInit /\ [][CodecNext]_vars

\* ------------------------------------------------- the repository alone
\* The repository called directly, with identifiers the caller chooses: StoreSecret
\* may overwrite a key that exists, and DelIfMatch is called with the value a
\* GetSecret of the caller returned.
RepoBlobs ==
    {Encrypt(<<Chars("a", 1)>>, pc, "r1", "r1") : pc \in Wordlist}
        \cup {Encrypt(<<Chars("b", 1)>>, pc, "r2", "r2") : pc \in Wordlist}

\* StoreSecret(id, blob, ttl) by a direct caller.
StoreSecretCall ==
    /\ Quiet
    /\ \E id \in Ids, blob \in RepoBlobs, fail \in Failures :
        /\ hist[id].stores < MaxStores
        /\ Fault(fail)
        /\ secret' = IF fail THEN secret ELSE StoreSecret(secret, id, blob, DefaultExpiry)
        /\ w' = IF fail THEN w ELSE Touch(w, {redisKey(id)})
        /\ hist' = IF fail THEN hist
                   ELSE [hist EXCEPT ![id].stores = @ + 1, ![id].fate = "stored",
                                     ![id].blob = blob, ![id].fails = -1]
    /\ UNCHANGED <<attempts, out, cleanup, used, codec, mw, rl, cli, page>>

\* blob := GetSecret(id); DelIfMatch(id, blob) is called.
DelIfMatchCall(p) ==
    /\ Quiet
    /\ w[p].pc = "idle"
    /\ \E id \in Ids :
        /\ GetSecret(secret, id).err = Nil
        /\ hist[id].n200 + Cardinality({q \in Procs : w[q].pc # "idle"}) < MaxCalls
        /\ w' = [w EXCEPT ![p] = [Idle EXCEPT !.pc = "del_get", !.id = id,
                                     !.blob = GetSecret(secret, id).blob]]
    /\ UNCHANGED <<secret, attempts, out, cleanup, used, faults, hist, codec, mw, rl, cli, page>>

RepoNext ==
    \/ StoreSecretCall
    \/ \E p \in Procs : (DelIfMatchCall(p) \/ DelGet(p) \/ DelExec(p))
    \/ \E id \in Ids : DeleteAttempts(id)
    \/ Sent

RepoSpec == Init /\ [][RepoNext]_vars

\* ------------------------------ the repository alone, with both transactions
\* IncrFailAndMaybeDelete(id) by a direct caller, on an identifier that was stored.
IncrFailCall(p) ==
    /\ Quiet
    /\ w[p].pc = "idle"
    /\ \E id \in Ids :
        /\ hist[id].stores > 0
        /\ hist[id].n401 + Cardinality({q \in Procs : w[q].pc # "idle"}) < MaxIncrs
        /\ w' = [w EXCEPT ![p] = [Idle EXCEPT !.pc = "incr_exists", !.id = id]]
    /\ UNCHANGED <<secret, attempts, out, cleanup, used, faults, hist, codec, mw, rl, cli, page>>

CallNext ==
    \/ StoreSecretCall
    \/ \E p \in Procs :
        \/ DelIfMatchCall(p)
        \/ IncrFailCall(p)
        \/ DelGet(p)
        \/ DelExec(p)
        \/ IncrExists(p)
        \/ IncrPTTL(p)
        \/ IncrExec(p)
        \/ IncrDel(p)
    \/ Sent

CallSpec == Init /\ [][CallNext]_vars

\* --------------------------------------------------- HandleCreate alone
\* Requests of /create with every kind of expiry and of body, and the clock.
HandleCreateExpiry == \E in \in ExpiryInputs : Create(in)

HandleCreateBody == \E in \in BodyInputs : Create(in)

CreateNext == HandleCreateExpiry \/ HandleCreateBody \/ Tick \/ Sent

CreateSpec == Init /\ [][CreateNext]_vars

\* ------------------------------------------------- the middlewares alone
\* One middleware wrapped around a handler that answers 200, as the tests of the
\* package do, and one request served through it.
Methods == {"GET", "HEAD", "POST", "PUT", "PATCH", "DELETE"}
Paths == {"/health", "/health/", "/create"}
Protos == {"", "http", "https", "HTTPS"}
MaxSizes == {0, 1024}
ContentLengths == {-1, 0, 1, 1024, 1025}
Requests ==
    [method : Methods, host : {"example.com"}, path : Paths, tls : BOOLEAN,
     xfp : Protos, contentLength : ContentLengths]

\* The next handler: it is called with the request r and answers 200.
ServeNext(headers, r) ==
    [status |-> 200, location |-> <<>>, headers |-> headers, next |-> TRUE, passed |-> r]

\* utility.HttpError, http.Redirect: the response is written here.
WriteHere(status, location) ==
    [status |-> status, location |-> location, headers |-> {}, next |-> FALSE,
     passed |-> NoReq]

\* Methods whose requests carry a body: POST only.
HasBodyPostOnly(method) == method = "POST"

HasBody(method) == method \in {"POST", "PUT", "PATCH"}

ContentLengthValidator(maxSize, r) ==
    IF HasBody(r.method) /\ r.contentLength < 0 THEN WriteHere(411, <<>>)
    ELSE IF HasBody(r.method) /\ r.contentLength > maxSize THEN WriteHere(413, <<>>)
    ELSE ServeNext({}, r)

\* A test of the proxy header that ignores its case.
IsHTTPSAnyCase(r) == r.tls \/ r.xfp \in {"https", "HTTPS"}

IsHTTPS(r) == r.tls \/ r.xfp = "https"

\* The headers SecurityHeaders sets on every response it passes on.
FixedHeaders ==
    {"X-Content-Type-Options", "X-Frame-Options", "Referrer-Policy",
     "Content-Security-Policy", "Permissions-Policy", "Cross-Origin-Opener-Policy"}

SecurityHeaders(cfg, r) ==
    IF cfg.RequireHTTPS /\ r.path # "/health"
    THEN IF ~IsHTTPS(r)
         THEN WriteHere(301, <<"https://", r.host, r.path>>)
         ELSE ServeNext({"Strict-Transport-Security"} \cup FixedHeaders, r)
    ELSE ServeNext(FixedHeaders, r)

MwInit ==
    /\ mw \in {[NoMw EXCEPT !.pc = "start", !.cfg = [RequireHTTPS |-> c], !.maxSize = m,
                   !.req = r] : c \in BOOLEAN, m \in MaxSizes, r \in Requests}
    /\ codec = NoCodec
    /\ rl = NoRl
    /\ cli = NoCli
    /\ page = NoPage
    /\ secret = [id \in Ids |-> NoKey]
    /\ attempts = [id \in Ids |-> NoCounter]
    /\ w = [p \in Procs |-> Idle]
    /\ out = NoResp
    /\ cleanup = [id \in Ids |-> 0]
    /\ used = {}
    /\ faults = 0
    /\ hist = [id \in Ids |-> NoHist]

\* ContentLengthValidator(maxSize)(handler).ServeHTTP(rr, req)
ServeContentLength ==
    /\ mw.pc = "start"
    /\ mw' = [mw EXCEPT !.pc = "done", !.by = "ContentLengthValidator",
                        !.resp = ContentLengthValidator(mw.maxSize, mw.req)]
    /\ UNCHANGED <<secret, attempts, w, out, cleanup, used, faults, hist, codec, rl, cli, page>>

\* SecurityHeaders(cfg)(handler).ServeHTTP(rr, req)
ServeSecurityHeaders ==
    /\ mw.pc = "start"
    /\ mw' = [mw EXCEPT !.pc = "done", !.by = "SecurityHeaders",
                        !.resp = SecurityHeaders(mw.cfg, mw.req)]
    /\ UNCHANGED <<secret, attempts, w, out, cleanup, used, faults, hist, codec, rl, cli, page>>

MwNext == ServeContentLength \/ ServeSecurityHeaders

MwSpec == MwInit /\ [][MwNext]_vars

\* -------------------------------------------------------- the rate limiter
\* The requests: method, RemoteAddr, X-Real-IP, and X-Forwarded-For as the list of
\* its comma-separated parts.
RateRequests ==
    [method : {"GET", "POST", "DELETE"},
     RemoteAddr : ClientIPs,
     XRealIP : {<<>>, Addr("10.0.0.2")},
     XForwardedFor : {<<>>,
                      <<Addr("10.0.0.2")>>,
                      <<<<Chars(" ", 1)>> \o Addr("10.0.0.1") \o <<Chars(" ", 1)>>,
                        Addr("10.0.0.2")>>}]

\* The address the request is counted for.
ClientIP(r) ==
    IF r.XRealIP # <<>> THEN r.XRealIP
    ELSE IF r.XForwardedFor # <<>> THEN TrimSpace(Head(r.XForwardedFor))
    ELSE r.RemoteAddr

\* limit of the method (GET or POST).
Limit(method) == IF method = "POST" THEN PostLimit ELSE GetLimit

\* A limiter that rejects the request that reaches the limit.
OverLimitAtLimit(n, limit) == n >= limit

\* int(incr.Val()) > limit
OverLimit(n, limit) == n > limit

\* MULTI; INCR key; EXPIRE key window; EXEC
IncrExpire(k, window) ==
    [exists |-> TRUE, val |-> (IF k.exists THEN k.val ELSE 0) + 1, ttl |-> window,
     age |-> IF k.exists THEN k.age ELSE 0]

\* RateLimiterMiddleware.Handler around a handler that answers 200.  fail: Exec
\* returns an error; applied: the transaction was committed all the same.
RateLimiterHandler(m, r, fail, applied) ==
    LET key == RateLimitKey(ClientIP(r), r.method)
        pass == [m EXCEPT !.method = r.method, !.key = NoRateLimitKey, !.incr = 0,
                          !.err = Nil, !.status = 200, !.next = TRUE]
    IN  IF m.rdb = "nil" THEN pass
        ELSE IF r.method \notin {"GET", "POST"} THEN pass
        ELSE LET k == IncrExpire(m.counters[key], Window)
                 counted == [m.counters EXCEPT ![key] = k]
             IN  IF fail
                 THEN [pass EXCEPT !.key = key, !.err = StoreErr,
                                   !.counters = IF applied THEN counted ELSE @]
                 ELSE IF OverLimit(k.val, Limit(r.method))
                 THEN [pass EXCEPT !.key = key, !.counters = counted, !.incr = k.val,
                                   !.status = 429, !.next = FALSE]
                 ELSE [pass EXCEPT !.key = key, !.counters = counted, !.incr = k.val]

\* A counter of the rate limiter after one tick of the store's clock.
AgeRate(k) ==
    IF ~k.exists THEN k
    ELSE IF k.ttl <= 1 THEN NoRate
    ELSE [k EXCEPT !.ttl = @ - 1, !.age = @ + 1]

RECURSIVE Counted(_, _)
Counted(counters, keys) ==
    IF keys = {} THEN 0
    ELSE LET k == CHOOSE x \in keys : TRUE
         IN  counters[k].val + Counted(counters, keys \ {k})

RateInit ==
    /\ rl \in {[NoRl EXCEPT !.rdb = c] : c \in {"nil", "client"}}
    /\ codec = NoCodec
    /\ mw = NoMw
    /\ cli = NoCli
    /\ page = NoPage
    /\ secret = [id \in Ids |-> NoKey]
    /\ attempts = [id \in Ids |-> NoCounter]
    /\ w = [p \in Procs |-> Idle]
    /\ out = NoResp
    /\ cleanup = [id \in Ids |-> 0]
    /\ used = {}
    /\ faults = 0
    /\ hist = [id \in Ids |-> NoHist]

\* One request is served through the rate limiter.
ServeRateLimited ==
    /\ \E r \in RateRequests, fail \in BOOLEAN, applied \in BOOLEAN :
        /\ ~fail => applied
        /\ Counted(rl.counters, RateLimitKeys) < MaxCounted
        /\ rl' = RateLimiterHandler(rl, r, fail, applied)
    /\ UNCHANGED <<secret, attempts, w, out, cleanup, used, faults, hist, codec, mw, cli, page>>

\* One tick of the store's clock; the response written last is on the wire.
RateTick ==
    /\ \E k \in RateLimitKeys : rl.counters[k].exists
    /\ rl' = [NoRl EXCEPT !.rdb = rl.rdb,
                          !.counters = [k \in RateLimitKeys |-> AgeRate(rl.counters[k])]]
    /\ UNCHANGED <<secret, attempts, w, out, cleanup, used, faults, hist, codec, mw, cli, page>>

RateNext == ServeRateLimited \/ RateTick

RateSpec == RateInit /\ [][RateNext]_vars

\* ------------------------------------------------- the command-line client
\* The requests of createSecret and readSecret.
CliRequests == {"POST /create", "POST /create expiry 1h", "POST /read/id1"}

\* What client.Do returns: a response with a status, or a transport error.
TransportErr == "transport error"
UnavailableErr == "server unavailable after 5 retries"
Statuses == {200, 201, 400, 401, 404, 411, 413, 429, 500, 502, 503}
Replies == {[status |-> s, err |-> Nil] : s \in Statuses}
               \cup {[status |-> 0, err |-> TransportErr]}

\* A client that tries again after every 5xx.
RetriedAny5xx(status) == status >= 500

\* resp.StatusCode == http.StatusBadGateway: the response is closed and the
\* request is sent again.
Retried(status) == status = 502

CliInit ==
    /\ cli \in {[NoCli EXCEPT !.pc = "do", !.req = r] : r \in CliRequests}
    /\ rl = NoRl
    /\ codec = NoCodec
    /\ mw = NoMw
    /\ page = NoPage
    /\ secret = [id \in Ids |-> NoKey]
    /\ attempts = [id \in Ids |-> NoCounter]
    /\ w = [p \in Procs |-> Idle]
    /\ out = NoResp
    /\ cleanup = [id \in Ids |-> 0]
    /\ used = {}
    /\ faults = 0
    /\ hist = [id \in Ids |-> NoHist]

\* One iteration of the loop of doRequestWithRetry from client.Do on.
Do ==
    /\ cli.pc = "do"
    /\ \E reply \in Replies :
        cli' = LET seen == Append(cli.seen, reply)
               IN  IF reply.err # Nil
                   THEN [cli EXCEPT !.pc = "returned", !.seen = seen, !.err = reply.err]
                   ELSE IF ~Retried(reply.status)
                   THEN [cli EXCEPT !.pc = "returned", !.seen = seen, !.resp = reply.status]
                   ELSE IF cli.i + 1 < maxRetries
                   THEN [cli EXCEPT !.pc = "sleep", !.seen = seen, !.closed = @ + 1,
                                    !.i = @ + 1]
                   ELSE [cli EXCEPT !.pc = "returned", !.seen = seen, !.closed = @ + 1,
                                    !.i = @ + 1, !.err = UnavailableErr]
    /\ UNCHANGED <<secret, attempts, w, out, cleanup, used, faults, hist, codec, mw, rl, page>>

\* time.Sleep(retryDelay) at the head of an iteration with i > 0.
Sleep ==
    /\ cli.pc = "sleep"
    /\ cli' = [cli EXCEPT !.pc = "do"]
    /\ UNCHANGED <<secret, attempts, w, out, cleanup, used, faults, hist, codec, mw, rl, page>>

CliNext == Do \/ Sleep

CliSpec == CliInit /\ [][CliNext]_vars

\* ------------------------------------------------------------ the Read page
PageInit ==
    /\ page = [NoPage EXCEPT !.mounted = TRUE]
    /\ cli = NoCli
    /\ rl = NoRl
    /\ codec = NoCodec
    /\ mw = NoMw
    /\ secret = [id \in Ids |-> NoKey]
    /\ attempts = [id \in Ids |-> NoCounter]
    /\ w = [p \in Procs |-> Idle]
    /\ out = NoResp
    /\ cleanup = [id \in Ids |-> 0]
    /\ used = {}
    /\ faults = 0
    /\ hist = [id \in Ids |-> NoHist]

\* The form is rendered: no secret is displayed and the page was not auto-cleared.
FormShown == page.mounted /\ page.secret = "" /\ page.secondsRemaining # 0

\* clearSecret, and with it the cleanup of the [secret] effect when the secret
\* changes: the interval is cleared.
ClearSecret(pg) ==
    [pg EXCEPT !.secret = "", !.passcode = "",
               !.timerRef = IF pg.secret # "" THEN FALSE ELSE @,
               !.effect = FALSE]

\* onInput of the passcode field.
Input ==
    /\ FormShown
    /\ page' = [page EXCEPT !.passcode = "passcode", !.last = "input"]
    /\ UNCHANGED <<secret, attempts, w, out, cleanup, used, faults, hist, codec, mw, rl, cli>>

\* handleSubmit up to the await of the fetch.
Submit ==
    /\ FormShown
    /\ page.passcode # ""
    /\ ~page.loading
    /\ page' = [page EXCEPT !.loading = TRUE, !.error = "", !.last = "submit"]
    /\ UNCHANGED <<secret, attempts, w, out, cleanup, used, faults, hist, codec, mw, rl, cli>>

\* handleSubmit from the response on.
Response ==
    /\ page.mounted
    /\ page.loading
    /\ \E ok \in BOOLEAN :
        page' = IF ok
                THEN [page EXCEPT !.secret = "secret", !.passcode = "", !.loading = FALSE,
                                  !.effect = page.secret = "", !.last = "response"]
                ELSE [page EXCEPT !.error = "error", !.loading = FALSE,
                                  !.last = "response"]
    /\ UNCHANGED <<secret, attempts, w, out, cleanup, used, faults, hist, codec, mw, rl, cli>>

\* The [secret] effect after the render that displays a secret.
StartCountdown ==
    /\ page.mounted
    /\ page.effect
    /\ page' = [page EXCEPT !.secondsRemaining = AUTO_CLEAR_SECONDS, !.timerRef = TRUE,
                            !.effect = FALSE, !.last = "effect"]
    /\ UNCHANGED <<secret, attempts, w, out, cleanup, used, faults, hist, codec, mw, rl, cli>>

\* A countdown that clears the secret one tick late.
ElapsedAtZero(prev) == prev <= 0

\* prev <= 1 in the callback of the interval.
Elapsed(prev) == prev <= 1

\* The callback of window.setInterval(..., 1000).
TimerTick ==
    /\ page.mounted
    /\ page.timerRef
    /\ page' = IF Elapsed(page.secondsRemaining)
               THEN [page EXCEPT !.secondsRemaining = 0, !.secret = "", !.timerRef = FALSE,
                                 !.last = "tick"]
               ELSE [page EXCEPT !.secondsRemaining = @ - 1, !.last = "tick"]
    /\ UNCHANGED <<secret, attempts, w, out, cleanup, used, faults, hist, codec, mw, rl, cli>>

\* The listeners of pagehide and beforeunload.
PageHide ==
    /\ page.mounted
    /\ \E ev \in {"pagehide", "beforeunload"} :
        page' = [ClearSecret(page) EXCEPT !.last = ev]
    /\ UNCHANGED <<secret, attempts, w, out, cleanup, used, faults, hist, codec, mw, rl, cli>>

\* The component unmounts: the cleanups of both effects run and the fetch in
\* flight is aborted.
Unmount ==
    /\ page.mounted
    /\ page' = [ClearSecret(page) EXCEPT !.mounted = FALSE, !.timerRef = FALSE,
                                         !.loading = FALSE, !.last = "unmount"]
    /\ UNCHANGED <<secret, attempts, w, out, cleanup, used, faults, hist, codec, mw, rl, cli>>

PageNext ==
    Input \/ Submit \/ Response \/ StartCountdown \/ TimerTick \/ PageHide \/ Unmount

PageSpec == PageInit /\ [][PageNext]_vars

\* ================================================================ claims

\* C1 (as claimed): of the reads of one identifier that present the correct
\* passcode, at most one is answered 200 with the plaintext.
C1_AtMostOneRead == \A id \in Ids : hist[id].n200 <= 1

\* C2 (as claimed): while the store serves every call and the secret has not
\* expired, at most MaxReadAttempts reads of one identifier have a wrong passcode
\* tested against the stored blob and are answered 401.
C2_AtMostMaxUnauthorized ==
    \A id \in Ids :
        faults = 0 /\ hist[id].fate # "expired" => hist[id].n401 <= MaxReadAttempts

\* C3: once DelIfMatch has deleted the value a successful read returned, the
\* secret key is absent and a HandleRead of that identifier answers 404, whatever
\* passcode it presents.
C3_NotFoundAfterConsume ==
    \A id \in Ids :
        hist[id].fate = "consumed" =>
            /\ GetSecret(secret, id).err = "redis: nil"
            /\ \A passcode \in ReadPasscodes \ {""} :
                  ReadFirst(secret, id, passcode, FALSE).status = 404

C3_Witness ==
    \E id \in Ids :
        /\ hist[id].fate = "consumed"
        /\ out.kind = "read" /\ out.id = id /\ out.status = 404

\* C4: after MaxReadAttempts failed reads answered one after the other, with
\* nothing else done to the identifier, the secret key and the attempts key are
\* absent and a read with the correct passcode answers 404.
C4_EvictedAfterMaxFailures ==
    \A id \in Ids :
        hist[id].fails = MaxReadAttempts =>
            /\ ~secret[id].exists
            /\ ~attempts[id].exists
            /\ ReadFirst(secret, id, hist[id].passcode, FALSE).status = 404

C4_Witness ==
    \E id \in Ids : hist[id].fails = MaxReadAttempts /\ hist[id].fate = "evicted"

\* C5: after k failed reads answered one after the other, 1 <= k < MaxReadAttempts,
\* and before the next read of the identifier starts, the secret key holds the blob
\* that was stored, the attempts counter is k, and a read with the correct passcode
\* decrypts the plaintext.
C5_BelowThreshold ==
    \A id \in Ids :
        (/\ hist[id].fails \in 1..(MaxReadAttempts - 1)
         /\ \A p \in Procs : w[p].id # id) =>
            /\ secret[id].exists
            /\ secret[id].val = hist[id].blob
            /\ attempts[id].exists
            /\ attempts[id].val = hist[id].fails
            /\ LET r == ReadFirst(secret, id, hist[id].passcode, FALSE)
               IN  r.status = 0 /\ r.pc = "del_get" /\ r.plaintext = hist[id].plaintext

C5_Witness ==
    \E id \in Ids :
        /\ hist[id].fails = MaxReadAttempts - 1
        /\ \A p \in Procs : w[p].id # id
        /\ attempts[id].val = MaxReadAttempts - 1
        /\ secret[id].exists

\* C6 (as claimed): a 401 written while the store serves every call and the secret
\* has not expired reports MaxReadAttempts - count, count being the value the
\* attempt's own INCR gave the counter (1..MaxReadAttempts).
C6_RemainingIsMaxMinusCount ==
    out.status = 401 /\ faults = 0 /\ hist[out.id].fate # "expired" =>
        /\ out.incr \in 1..MaxReadAttempts
        /\ out.remaining = MaxReadAttempts - out.incr

\* C7: the step in which IncrFailAndMaybeDelete finds the secret key absent returns
\* count 0 and a nil error and leaves both keys of every identifier as they were.
C7_AbsentIsNoOp ==
    [][\A p \in Procs :
          (/\ w[p].pc = "incr_exists"
           /\ ~secret[w[p].id].exists
           /\ w'[p] # w[p]
           /\ faults' = faults)
          => /\ w'[p] = Idle
             /\ out'.status = 401 /\ out'.ret = 0 /\ out'.err = Nil
             /\ secret' = secret
             /\ attempts' = attempts]_vars

C7_Witness ==
    /\ out.status = 401 /\ out.gone /\ out.ret = 0 /\ out.err = Nil
    /\ ~secret[out.id].exists /\ ~attempts[out.id].exists

\* C8 (as claimed): an attempts counter that exists has an expiry, and while the
\* secret exists the counter's remaining time is at most the secret's.
C8_CounterTTLBounded ==
    \A id \in Ids :
        attempts[id].exists =>
            /\ attempts[id].ttl # NoExpiry
            /\ secret[id].exists => attempts[id].ttl <= secret[id].ttl

\* C9 (as claimed): the attempts counter of an identifier never exists while its
\* secret key is absent.
C9_NoCounterWithoutSecret ==
    \A id \in Ids : attempts[id].exists => secret[id].exists

\* C10: when two reads went through DelIfMatch with the blob that was stored, no
\* store call of either failed, and the key neither expired nor was evicted, exactly
\* one call removed the key and neither returned an error.
C10_OneDeletesOtherNoOp ==
    \A id \in Ids :
        (/\ hist[id].n200 = 2
         /\ ~hist[id].delFault
         /\ hist[id].fate \in {"stored", "consumed"})
        => /\ hist[id].fate = "consumed"
           /\ hist[id].dels = 1
           /\ ~hist[id].delErr

C10_Witness ==
    \E id \in Ids :
        /\ hist[id].n200 = 2 /\ hist[id].dels = 1 /\ hist[id].delRetry
        /\ ~hist[id].delFault /\ ~hist[id].delErr

\* C13: Decrypt of a blob Encrypt returned, with the passcode it was sealed under,
\* succeeds and returns the plaintext that was sealed (empty, text or binary).
C13_RoundTrip ==
    codec.pc = "opened" /\ codec.how = "none" /\ codec.guess = codec.passcode =>
        /\ codec.res.ok
        /\ codec.res.err = Nil
        /\ codec.res.pt = codec.plaintext

C13_Witness ==
    /\ codec.pc = "opened" /\ codec.how = "none" /\ codec.guess = codec.passcode
    /\ codec.plaintext = <<>> /\ codec.res.ok

\* C14: Decrypt of a blob Encrypt returned, with another passcode than the one it
\* was sealed under, fails with "auth failed" and returns no plaintext, which is
\* also the result for a blob whose ciphertext was altered.
C14_WrongPasscodeAuthFails ==
    (/\ codec.pc = "opened"
     /\ \/ codec.how = "none" /\ codec.guess # codec.passcode
        \/ codec.how \in {"ct", "cut"})
    => codec.res = [ok |-> FALSE, pt |-> <<>>, err |-> "auth failed", kdf |-> TRUE]

C14_Witness ==
    /\ codec.pc = "opened" /\ codec.how = "none" /\ codec.guess # codec.passcode
    /\ codec.res.err = "auth failed"

\* C15: a blob Encrypt returns differs from every blob it returned before for the
\* same plaintext and passcode.
C15_FreshBlobs == codec.pc = "sealed" => codec.blob \notin codec.seen

C15_Witness == codec.pc = "sealed" /\ codec.seen # {}

\* C16: for every passcode, Decrypt rejects a blob without the "v1:" prefix, a
\* blob whose text is not base64 and a blob whose payload is shorter than
\* saltLen + nonceLen + 1 bytes, each with its own error and without deriving a
\* key; a payload of saltLen + nonceLen + 1 bytes is not rejected as too short.
C16_MalformedRejected ==
    codec.pc = "opened" =>
        /\ codec.how \in {"prefix", "b64", "short"} =>
              /\ ~codec.res.ok
              /\ codec.res.pt = <<>>
              /\ ~codec.res.kdf
              /\ codec.res.err = CASE codec.how = "prefix" -> "unsupported format"
                                   [] codec.how = "b64" -> "b64"
                                   [] codec.how = "short" -> "blob too short"
        /\ codec.how = "least" => codec.res.kdf

C16_Witness ==
    /\ codec.pc = "opened" /\ codec.how = "short" /\ codec.guess = codec.passcode
    /\ codec.res.err = "blob too short"

\* C12 (as claimed): when a read is answered 200 with the plaintext, the secret
\* key of its identifier is absent from the store.
C12_DeletedWhenReturned ==
    out.kind = "read" /\ out.status = 200 => ~secret[out.id].exists

\* C17 (as claimed): an IncrFailAndMaybeDelete call whose maxWatchRetries attempts
\* all ended in a conflict (with other failed reads, the store serving every call
\* and nothing expiring) returns an error.
C17_ExhaustionIsAnError ==
    out.exhausted /\ faults = 0 /\ hist[out.id].fate # "expired" => out.err # Nil

\* C18 (as claimed): a read whose IncrFailAndMaybeDelete returned an error is not
\* answered 401.
C18_StoreErrorSurfaced ==
    out.kind = "read" /\ out.status = 401 => out.err = Nil

\* C19: a step that removes the secret key of an identifier, or changes its value,
\* removes it and is the EXEC of a DelIfMatch called with the value the key holds,
\* or the DEL pipeline of an IncrFailAndMaybeDelete whose count reached
\* MaxReadAttempts, or the expiry of a key whose time is up; and a step in which a
\* call of the store fails changes no secret key.
C19_OnlyThreeRemovals ==
    [][/\ \A id \in Ids :
            (/\ secret[id].exists
             /\ ~secret'[id].exists \/ secret'[id].val # secret[id].val)
            => /\ ~secret'[id].exists
               /\ \/ \E p \in Procs :
                        /\ w[p].pc = "del_exec" /\ w[p].id = id
                        /\ w[p].blob = secret[id].val
                        /\ w'[p].pc = "idle" /\ out'.status = 200
                  \/ \E p \in Procs :
                        /\ w[p].pc = "incr_del" /\ w[p].id = id
                        /\ w[p].cnt >= MaxReadAttempts
                        /\ w'[p].pc = "idle" /\ out'.status = 401
                  \/ /\ secret[id].ttl = 0
                     /\ out' = out /\ cleanup' = cleanup
                     /\ \A p \in Procs : w'[p].pc = w[p].pc
       /\ faults' # faults => secret' = secret]_vars

C19_Witness ==
    \E id \in Ids :
        /\ hist[id].fate = "evicted"
        /\ out.status = 401 /\ out.incr = MaxReadAttempts /\ ~out.fault
        /\ ~secret[id].exists

\* C11: a step of DelIfMatch(id, old) taken while the key holds a value other than
\* old (a StoreSecret overwrote it after the caller's read) leaves the key and its
\* value as they are, and every step that removes a key is the EXEC of a
\* DelIfMatch whose old is the value removed.
C11_NeverDeletesOtherValue ==
    [][/\ \A p \in Procs :
            (/\ w[p].pc \in {"del_get", "del_exec"}
             /\ w'[p].pc # w[p].pc \/ w'[p].i # w[p].i
             /\ secret[w[p].id].exists
             /\ secret[w[p].id].val # w[p].blob)
            => secret' = secret
       /\ \A id \in Ids :
            secret[id].exists /\ ~secret'[id].exists =>
                \E p \in Procs :
                    /\ w[p].pc = "del_exec" /\ w[p].id = id
                    /\ w[p].blob = secret[id].val
                    /\ w'[p].pc = "idle"]_vars

C11_Witness ==
    \E id \in Ids :
        /\ out.kind = "read" /\ out.id = id /\ out.err = Nil
        /\ ~out.deleted /\ ~out.fault
        /\ hist[id].stores = 2 /\ hist[id].dels = 0 /\ hist[id].delRetry
        /\ faults = 0
        /\ secret[id].exists /\ secret[id].val = hist[id].blob

\* C20: a /create that gets as far as the expiry is answered 400, and stores
\* nothing, when its expiry is anything but absent, "1h", "6h", "1d" or "3d"; when
\* it is answered 201 the key was stored with a time to live of 24 hours for an
\* absent expiry and of 1, 6, 24, 72 hours for the four tokens; and a request
\* with one of these five that nothing fails under is answered 201.
C20_ExpiryPolicy ==
    [][out'.kind = "create" =>
        LET e == out'.req.body.expiry
            hours == CASE e = "" -> 24 [] e = "1h" -> 1 [] e = "6h" -> 6
                       [] e = "1d" -> 24 [] e = "3d" -> 72 [] OTHER -> 0
            reached == /\ out'.req.body.json = "ok"
                       /\ TrimSpace(out'.req.body.secret) # <<>>
                       /\ ByteLen(TrimSpace(out'.req.body.secret)) <= MaxSecretSize
                       /\ out'.req.rnd # "passcode"
        IN  /\ out'.status = 201 =>
                /\ hours > 0
                /\ secret'[out'.id].exists
                /\ secret'[out'.id].ttl = hours * Hour
            /\ reached /\ hours = 0 =>
                /\ out'.status = 400
                /\ secret' = secret
            /\ reached /\ hours > 0 /\ out'.req.rnd = "ok" /\ ~out'.req.fail =>
                out'.status = 201]_vars

C20_Witness ==
    /\ out.kind = "create"
    /\ \/ out.req.body.expiry = "24h" /\ out.status = 400
       \/ out.req.body.expiry = "3d" /\ out.status = 201

\* C21: a /create whose body does not parse or is too large, whose secret is empty
\* or blank or longer than MaxSecretSize after trimming, or whose expiry is no
\* token, is answered 400 or 413, returns no identifier and no passcode, draws no
\* identifier, makes no call of the store that could fail and leaves every key as
\* it was; a /create whose StoreSecret fails is answered 500 without identifier
\* and passcode and leaves every key as it was; a secret of exactly MaxSecretSize
\* bytes is not rejected for its size.
C21_RejectedStoresNothing ==
    [][out'.kind = "create" =>
        LET b == out'.req.body
            blank == \A i \in 1..Len(b.secret) : b.secret[i].v[2] = " "
            rejected == \/ b.json # "ok"
                        \/ blank
                        \/ ByteLen(TrimSpace(b.secret)) > 64 * 1024
                        \/ /\ out'.req.rnd # "passcode"
                           /\ b.expiry \notin {"", "1h", "6h", "1d", "3d"}
        IN  /\ rejected =>
                /\ out'.status \in {400, 413}
                /\ out'.id = Nil /\ out'.passcode = Nil
                /\ secret' = secret /\ attempts' = attempts
                /\ used' = used /\ faults' = faults
            /\ out'.req.fail =>
                /\ out'.status = 500
                /\ out'.id = Nil /\ out'.passcode = Nil
                /\ secret' = secret /\ attempts' = attempts
            /\ ~rejected /\ out'.req.rnd = "ok" /\ ~out'.req.fail =>
                out'.status = 201]_vars

C21_Witness ==
    /\ out.kind = "create" /\ out.id = Nil /\ out.passcode = Nil
    /\ \A id \in Ids : ~secret[id].exists
    /\ \/ out.status = 400 /\ out.req.body.secret = <<Chars(" ", 2)>>
       \/ out.status = 500 /\ out.req.fail

\* C22: a HandleRead that is answered before any call of DelIfMatch or
\* IncrFailAndMaybeDelete is answered 400 (always so without id), 404 (the secret
\* key is absent) or 500 (its GET failed), and its step leaves the secret key, the
\* attempts counter, the pending cleanups and the counts of served and failed
\* reads of every identifier as they were; a HandleRead that goes on to one of
\* the two calls found the secret key present.
C22_RejectedReadChangesNothing ==
    [][/\ (w' = w /\ out'.kind = "read" /\ out.kind = "none") =>
            /\ out'.status \in {400, 404, 500}
            /\ out'.id = "" => out'.status = 400
            /\ out'.status = 404 => out'.id \in Ids /\ ~secret[out'.id].exists
            /\ out'.status = 500 <=> faults' # faults
            /\ secret' = secret
            /\ attempts' = attempts
            /\ cleanup' = cleanup
            /\ \A id \in Ids : /\ hist'[id].n401 = hist[id].n401
                               /\ hist'[id].n200 = hist[id].n200
                               /\ hist'[id].fate = hist[id].fate
       /\ \A p \in Procs :
            w[p].pc = "idle" /\ w'[p].pc # "idle" =>
                /\ secret[w'[p].id].exists
                /\ faults' = faults
                /\ secret' = secret
                /\ attempts' = attempts]_vars

C22_Witness ==
    /\ out.kind = "read" /\ out.status \in {404, 500}
    /\ attempts[out.id].exists /\ attempts[out.id].val = MaxReadAttempts - 1

\* C23: with RequireHTTPS set, a request that comes without TLS and without the
\* header X-Forwarded-Proto: https, to a path other than /health, is answered 301
\* with Location https://host/path and does not reach the next handler; every
\* other request reaches it; Strict-Transport-Security is set only on a response
\* to a request that is HTTPS, with RequireHTTPS set.
C23_HTTPSEnforced ==
    mw.pc = "done" /\ mw.by = "SecurityHeaders" =>
        LET r == mw.req
            https == r.tls \/ r.xfp = "https"
            plain == mw.cfg.RequireHTTPS /\ ~https /\ r.path # "/health"
        IN  /\ plain => /\ mw.resp.status = 301
                        /\ mw.resp.location = <<"https://", r.host, r.path>>
                        /\ ~mw.resp.next
            /\ ~plain => mw.resp.next /\ mw.resp.passed = r /\ mw.resp.status = 200
            /\ "Strict-Transport-Security" \in mw.resp.headers =>
                  mw.cfg.RequireHTTPS /\ https

C23_Witness ==
    /\ mw.pc = "done" /\ mw.by = "SecurityHeaders"
    /\ mw.cfg.RequireHTTPS /\ ~mw.req.tls /\ mw.req.xfp = "HTTPS"
    /\ mw.req.path = "/health/"
    /\ mw.resp.status = 301 /\ ~mw.resp.next

\* C24: ContentLengthValidator(maxSize) answers a POST, PUT or PATCH request 411
\* when its Content-Length is unknown and 413 when it exceeds maxSize, without
\* calling the next handler; every other request is passed to the next handler as
\* it came.
C24_ContentLengthChecked ==
    mw.pc = "done" /\ mw.by = "ContentLengthValidator" =>
        LET r == mw.req
            body == r.method = "POST" \/ r.method = "PUT" \/ r.method = "PATCH"
        IN  IF body /\ r.contentLength = -1
            THEN mw.resp.status = 411 /\ ~mw.resp.next
            ELSE IF body /\ r.contentLength > mw.maxSize
            THEN mw.resp.status = 413 /\ ~mw.resp.next
            ELSE mw.resp.next /\ mw.resp.passed = r /\ mw.resp.status = 200

C24_Witness ==
    /\ mw.pc = "done" /\ mw.by = "ContentLengthValidator"
    /\ mw.req.method = "PATCH" /\ mw.req.contentLength = mw.maxSize + 1
    /\ mw.resp.status = 413 /\ ~mw.resp.next

\* C25 (as claimed): while the store serves every call, a state in which the
\* attempts counter of an identifier has reached MaxReadAttempts and its secret
\* key still exists is seen by no goroutine but the one whose INCR reached the
\* threshold: no other goroutine has a call on that identifier served in it.
C25_ThresholdIsOneCommit ==
    [][\A id \in Ids :
          (/\ faults = 0 /\ faults' = 0
           /\ attempts[id].exists
           /\ attempts[id].val >= MaxReadAttempts
           /\ secret[id].exists)
          => \A q \in Procs :
                \/ w[q].pc = "incr_del" /\ w[q].id = id
                \/ w'[q].pc = w[q].pc /\ w'[q].i = w[q].i
                \/ w[q].id # id /\ w'[q].id # id]_vars

\* C26 (as claimed): while the store serves every call, the attempts counter of an
\* identifier is at most MaxReadAttempts and no IncrFailAndMaybeDelete returns a
\* count above MaxReadAttempts.
C26_CounterAtMostMax ==
    faults = 0 =>
        /\ \A id \in Ids : attempts[id].exists => attempts[id].val <= MaxReadAttempts
        /\ out.ret <= MaxReadAttempts

\* C27 (as claimed): the attempt in which DelIfMatch reads a value other than old
\* from the key ends the call: DelIfMatch returns nil in that step, without another
\* attempt, and the key keeps its value.
C27_MismatchAbortsAtOnce ==
    [][\A p \in Procs :
          (/\ w[p].pc = "del_get"
           /\ w'[p] # w[p]
           /\ faults' = faults
           /\ secret[w[p].id].exists
           /\ secret[w[p].id].val # w[p].blob)
          => /\ w'[p] = Idle
             /\ out'.err = Nil /\ ~out'.deleted
             /\ secret' = secret]_vars

\* C28: the attempt in which DelIfMatch finds the key absent ends the call with
\* nil and changes no key; and once two DelIfMatch calls with the value that was
\* stored have returned, the store having served them, the key is absent and
\* exactly one of them removed it.
C28_DelIfMatchIdempotent ==
    [][/\ \A p \in Procs :
            (/\ w[p].pc = "del_get"
             /\ w'[p] # w[p]
             /\ faults' = faults
             /\ ~secret[w[p].id].exists)
            => /\ w'[p] = Idle
               /\ out'.err = Nil /\ ~out'.deleted
               /\ secret' = secret
               /\ attempts' = attempts
       /\ \A id \in Ids :
            (/\ hist'[id].n200 = 2
             /\ hist'[id].stores = 1
             /\ ~hist'[id].delFault)
            => /\ ~secret'[id].exists
               /\ hist'[id].dels = 1
               /\ ~hist'[id].delErr]_vars

C28_Witness ==
    \E id \in Ids :
        /\ hist[id].n200 = 2 /\ hist[id].stores = 1 /\ hist[id].dels = 1
        /\ ~hist[id].delFault /\ ~hist[id].delRetry
        /\ out.kind = "read" /\ out.err = Nil /\ ~out.deleted
        /\ ~secret[id].exists

\* C29: no call of DelIfMatch or IncrFailAndMaybeDelete makes more than
\* maxWatchRetries attempts: each new run of the transaction function counts as
\* one attempt more, and the count of a call stays below maxWatchRetries, so the
\* attempt numbered maxWatchRetries ends the call, whatever the writers do.
C29_AtMostMaxWatchRetries ==
    [][\A p \in Procs :
          /\ w'[p].i < maxWatchRetries
          /\ (/\ w[p].pc # "idle"
              /\ w'[p].pc \in {"del_get", "incr_exists"}
              /\ w'[p] # w[p])
             => /\ w'[p].i = w[p].i + 1
                /\ w'[p].id = w[p].id]_vars

C29_Witness ==
    /\ out.exhausted /\ out.status = 200 /\ faults = 0
    /\ \A p \in Procs : w[p].pc = "idle"

C31_IncrementOncePerCall ==
    [][/\ \A id \in Ids :
            attempts'[id] # attempts[id] =>
                \E p \in Procs :
                    /\ w[p].id = id
                    /\ \/ /\ w[p].pc = "incr_exec"
                          /\ attempts'[id].exists
                          /\ attempts'[id].val =
                                IF attempts[id].exists THEN attempts[id].val + 1 ELSE 1
                          /\ w'[p].pc \in {"idle", "incr_del"}
                          /\ w'[p].pc = "incr_del" => w'[p].cnt = attempts'[id].val
                          /\ w'[p].pc = "idle" => out'.ret = attempts'[id].val
                       \/ /\ w[p].pc = "incr_del"
                          /\ w[p].cnt >= MaxReadAttempts
                          /\ ~attempts'[id].exists
                          /\ out'.ret = w[p].cnt
       /\ (out'.status = 401 /\ out.kind = "none") =>
            /\ out'.ret # 0 => out'.incr = out'.ret /\ out'.err = Nil
            /\ out'.ret = 0 /\ out'.err = Nil =>
                  /\ out'.incr = 0
                  /\ attempts' = attempts]_vars

C31_Witness ==
    /\ out.status = 401 /\ out.exhausted /\ out.ret = 0 /\ out.err = Nil
    /\ attempts[out.id].exists /\ attempts[out.id].val = MaxReadAttempts - 1

\* C32: while the store serves every call and every cleanup goroutine that was
\* started gets to run, a read answered 200 with the plaintext is followed by a
\* state in which the attempts counter of its identifier is absent.
C32_CounterEventuallyAbsent ==
    \A id \in Ids :
        (out.kind = "read" /\ out.status = 200 /\ out.id = id)
            ~> ~attempts[id].exists

C32_Witness ==
    /\ out.kind = "read" /\ out.status = 200
    /\ attempts[out.id].exists /\ cleanup[out.id] > 0

\* C33: the step in which a cleanup goroutine ends, with the counter deleted or
\* with a store error or timeout, writes no response and moves no handler; and
\* the step that answers a read with 200 starts the cleanup and returns at once,
\* the cleanup still pending.
C33_CleanupNeverChangesResponse ==
    [][/\ \A id \in Ids :
            cleanup'[id] < cleanup[id] =>
                /\ out' = out
                /\ \A p \in Procs : w'[p].pc = w[p].pc
                /\ hist'[id].n200 = hist[id].n200
       /\ (out'.kind = "read" /\ out'.status = 200 /\ out.kind = "none") =>
            /\ cleanup'[out'.id] = cleanup[out'.id] + 1
            /\ \E p \in Procs : w[p].pc # "idle" /\ w[p].id = out'.id /\ w'[p].pc = "idle"]_vars

\* The read consumed the secret, its cleanup ended with a store error and left
\* the counter behind.
C33_Witness ==
    \E id \in Ids :
        /\ hist[id].n200 = 1 /\ hist[id].dels = 1
        /\ cleanup[id] = 0
        /\ attempts[id].exists
        /\ ~secret[id].exists

\* C34: a secret key is written only by the StoreSecret of a HandleCreate that
\* answers 201, on an identifier that was never drawn before and whose key is
\* absent; the write sets the key to the blob of that request and leaves every
\* attempts counter as it was; a stored key disappears only as consumed, evicted
\* by failures or expired, and is never stored again.
C34_StoredOnce ==
    [][\A id \in Ids :
        /\ (secret'[id].exists /\ (~secret[id].exists \/ secret'[id].val # secret[id].val)) =>
            /\ ~secret[id].exists
            /\ id \notin used
            /\ hist[id].fate = "none"
            /\ out'.kind = "create" /\ out'.status = 201 /\ out'.id = id
            /\ secret'[id].val = hist'[id].blob
            /\ hist'[id].fate = "stored"
            /\ attempts' = attempts
        /\ (secret[id].exists /\ ~secret'[id].exists) =>
            /\ hist[id].fate = "stored"
            /\ hist'[id].fate \in {"consumed", "evicted", "expired"}
        /\ hist[id].fate \in {"consumed", "evicted", "expired"} =>
            /\ ~secret'[id].exists
            /\ hist'[id].fate = hist[id].fate]_vars

C34_Witness ==
    \E id \in Ids :
        /\ id \in used
        /\ ~secret[id].exists
        /\ hist[id].fate \in {"consumed", "evicted", "expired"}
        /\ hist[id].stores = 1

\* C35: a request served through the rate limiter is answered 429, without the
\* next handler, exactly when the client is connected, the method is GET or POST,
\* the pipeline succeeded and the counter of the request's key after its INCR
\* exceeds the limit of the method; every other request reaches the next
\* handler, and a request with another method or with a nil client changes no
\* counter.
C35_RejectsExactlyOverLimit ==
    [][rl'.method # "" =>
        LET limited == rl.rdb # "nil" /\ rl'.method \in {"GET", "POST"}
            before == IF limited /\ rl.counters[rl'.key].exists
                      THEN rl.counters[rl'.key].val ELSE 0
        IN  /\ limited => rl'.key \in RateLimitKeys /\ rl'.key[3] = rl'.method
            /\ rl'.status = 429 <=>
                   (limited /\ rl'.err = Nil /\ before + 1 > Limit(rl'.method))
            /\ rl'.status = 429 => ~rl'.next
            /\ rl'.status # 429 => rl'.status = 200 /\ rl'.next
            /\ (limited /\ rl'.err = Nil) =>
                   rl'.incr = before + 1 /\ rl'.counters[rl'.key].val = before + 1
            /\ ~limited => rl'.counters = rl.counters]_vars

C35_Witness ==
    /\ rl.status = 429 /\ ~rl.next
    /\ rl.method = "GET" /\ rl.incr = GetLimit + 1

\* C36 (as claimed): the counter of a key expires one window after the request
\* that created it, so no counter is older than a window and no request is
\* answered 429 a window or more after the first request of its window.
C36_FixedWindow ==
    /\ \A k \in RateLimitKeys : rl.counters[k].exists => rl.counters[k].age < Window
    /\ rl.status = 429 => rl.counters[rl.key].age < Window

\* C37: doRequestWithRetry calls client.Do at most maxRetries times; what it
\* returns is the first response whose status is not 502, all the responses
\* before it being 502 and closed; or the transport error of the call of
\* client.Do that failed, which is the last call; or, with a nil response, the
\* error after maxRetries responses 502.
C37_AtMostMaxRetries ==
    LET n == Len(cli.seen)
        before == IF n = 0 THEN <<>> ELSE SubSeq(cli.seen, 1, n - 1)
    IN  /\ n <= maxRetries
        /\ \A j \in 1..Len(before) : before[j].err = Nil /\ before[j].status = 502
        /\ cli.pc = "returned" =>
            /\ n >= 1
            /\ \/ cli.resp # 0 /\ cli.resp # 502 /\ cli.err = Nil
                  /\ cli.seen[n].err = Nil /\ cli.seen[n].status = cli.resp
                  /\ cli.closed = n - 1
               \/ cli.resp = 0 /\ cli.err = TransportErr /\ cli.seen[n].err = TransportErr
               \/ cli.resp = 0 /\ cli.err = UnavailableErr
                  /\ cli.seen[n].err = Nil /\ cli.seen[n].status = 502
                  /\ n = maxRetries /\ cli.closed = n
        /\ cli.pc # "returned" =>
            /\ cli.resp = 0 /\ cli.err = Nil
            /\ n = cli.i /\ n < maxRetries
            /\ \A j \in 1..n : cli.seen[j].err = Nil /\ cli.seen[j].status = 502

C37_Witness ==
    /\ cli.pc = "returned" /\ cli.resp = 0 /\ cli.err = UnavailableErr
    /\ Len(cli.seen) = maxRetries

\* C38: the countdown of a displayed secret starts at AUTO_CLEAR_SECONDS; a tick
\* of the timer lowers it by one and never below 0; the tick that brings it to 0
\* removes the secret and stops the timer; a page hide, before-unload or unmount
\* removes the secret and the passcode and stops the timer, whatever the
\* countdown shows; and while a timer runs a secret is displayed and the
\* countdown is between 1 and AUTO_CLEAR_SECONDS.
C38_CountdownClearsSecret ==
    [][/\ (page'.timerRef /\ ~page.timerRef) =>
            page.secret # "" /\ page'.secret = page.secret
            /\ page'.secondsRemaining = AUTO_CLEAR_SECONDS
       /\ page'.secondsRemaining # page.secondsRemaining =>
            \/ page'.timerRef /\ ~page.timerRef
            \/ /\ page.timerRef
               /\ page'.secondsRemaining = page.secondsRemaining - 1
               /\ page'.secondsRemaining >= 0
       /\ (page'.secondsRemaining = 0 /\ page.secondsRemaining # 0) =>
            page'.secret = "" /\ ~page'.timerRef
       /\ (page'.secondsRemaining # 0 /\ page.timerRef /\ page'.last = "tick") =>
            page'.secret = page.secret /\ page'.timerRef
       /\ page'.last \in {"pagehide", "beforeunload", "unmount"} =>
            page'.secret = "" /\ page'.passcode = "" /\ ~page'.timerRef
       /\ page'.timerRef =>
            /\ page'.secret # ""
            /\ page'.secondsRemaining \in 1..AUTO_CLEAR_SECONDS]_vars

C38_Witness ==
    /\ page.mounted /\ page.last = "tick"
    /\ page.secondsRemaining = 0 /\ page.secret = "" /\ ~page.timerRef

====
